---- MODULE Spec2Model ----
(***************************************************************************)
(* Safety-map: the rating store (save_rating / load_ratings of             *)
(* src/map_loader.py and src/ratings_utils.py) and the decay-weighted      *)
(* aggregation (apply_ratings / update_node_safety of src/map_loader.py).  *)
(*                                                                         *)
(* Time is counted in ticks; TicksPerDay ticks make one day.  A score is   *)
(* an integer number of tenths (8 is 0.8, 15 is 1.5).  Rationals are       *)
(* records [num, den] in lowest terms.                                     *)
(***************************************************************************)
EXTENDS Integers, Sequences, FiniteSets, TLC

VARIABLES
    file,      \* the persisted store, ratings.json
    clock,     \* datetime.utcnow(), in ticks
    ratings,   \* the mapping the last load_ratings call returned
    last,      \* the last call made: its name, the exception it raised, the store before it
    calls,     \* the save_rating calls that returned, in order
    safety,    \* G.nodes[n]["safety"]
    report,    \* what the last apply_ratings call did, node by node
    pc,        \* per writer process: where it is in its save_rating call
    data,      \* per writer process: its in-memory copy of the store
    overlap,   \* a writer loaded the store while the other held a loaded copy
    base,      \* the store before the writer processes started
    hist,      \* a rating history handed to the deduplication
    pass1,     \* the deduplication of hist
    pass2      \* the deduplication of the mapping in pass1

storeVars == <<file, clock, ratings, last, calls>>
aggVars == <<safety, report>>
raceVars == <<pc, data, overlap, base>>
dedupVars == <<hist, pass1, pass2>>
vars == <<storeVars, aggVars, raceVars, dedupVars>>

(***************************************************************************)
(* Bounds of the model.                                                    *)
(***************************************************************************)
TicksPerDay == 2
DecayDays == 2
MaxClock == 2
MaxRecords == 2
MaxAggRecords == 2
MaxHist == 2

(***************************************************************************)
(* Values.                                                                 *)
(***************************************************************************)
Users == {"alice", "bob"}
NodeIds == {42, 7}
Scores == {3, 8, 15}

\* A JSON string holding the ISO-8601 text of instant t, a JSON string that is
\* no ISO-8601 text, and an in-memory datetime object.
IsoStr(t) == [kind |-> "isostr", t |-> t]
BadStr == [kind |-> "badstr", t |-> 0]
DateTime(t) == [kind |-> "datetime", t |-> t]

\* str(node_id) and int(node_id) on the identifiers the model uses.
Numerals == {<<42, "42">>, <<7, "7">>}
str(n) == (CHOOSE p \in Numerals : p[1] = n)[2]
IsNumeral(s) == \E p \in Numerals : p[2] = s
int(s) == (CHOOSE p \in Numerals : p[2] = s)[1]

\* datetime.isoformat() and datetime.fromisoformat(): the latter raises
\* TypeError on a non-string and ValueError on a string that does not parse.
isoformat(dt) == IsoStr(dt.t)
fromisoformat(x) ==
    IF x.kind = "datetime" THEN [exc |-> "TypeError", val |-> x]
    ELSE IF x.kind = "badstr" THEN [exc |-> "ValueError", val |-> x]
    ELSE [exc |-> "none", val |-> DateTime(x.t)]

\* A Python dict with string keys, in insertion order: a sequence of
\* [key, val] entries with pairwise distinct keys.
dict_keys(d) == {d[i].key : i \in 1..Len(d)}
dict_index(d, k) == CHOOSE i \in 1..Len(d) : d[i].key = k
dict_get(d, k) == d[dict_index(d, k)].val
dict_set(d, k, v) ==
    IF k \in dict_keys(d)
    THEN [d EXCEPT ![dict_index(d, k)] = [key |-> k, val |-> v]]
    ELSE Append(d, [key |-> k, val |-> v])

\* r.get(k, None) is not None
has(r, k) == k \in DOMAIN r

\* json.dump accepts strings and numbers; a datetime object makes it raise
\* TypeError after the file has been truncated and partly written.
RecordSerializable(r) == has(r, "timestamp") => r.timestamp.kind # "datetime"
Serializable(nodes) ==
    \A i \in 1..Len(nodes) : \A j \in 1..Len(nodes[i].val) :
        RecordSerializable(nodes[i].val[j])

\* The persisted store: no file, a file holding {"nodes": ...}, or a file that
\* is no JSON document.
Absent == [st |-> "absent", nodes |-> <<>>]
Corrupt == [st |-> "corrupt", nodes |-> <<>>]
Json(nodes) == [st |-> "json", nodes |-> nodes]

(***************************************************************************)
(* map_loader.load_ratings: latest record per user, node by node.          *)
(***************************************************************************)
\* One pass of the loop over a node's records.  user_latest is the dict
\* user -> record being built.  A result is [exc, val]; exc names the
\* exception the loop ends with, "none" when it runs to its end.
RECURSIVE latest_per_user(_, _, _)
latest_per_user(records, i, user_latest) ==
    IF i > Len(records) THEN [exc |-> "none", val |-> user_latest]
    ELSE
      LET r == records[i]
          user == IF has(r, "user") THEN r.user ELSE "anonymous"
      IN IF ~has(r, "score") \/ ~has(r, "timestamp")
         THEN latest_per_user(records, i + 1, user_latest)
         ELSE
           LET p == fromisoformat(r.timestamp)
           IN IF p.exc = "ValueError"
              \* the handler formats ts_str, a name that is never bound
              THEN [exc |-> "NameError", val |-> user_latest]
              ELSE IF p.exc # "none"
              THEN [exc |-> p.exc, val |-> user_latest]
              ELSE
                LET ts == p.val
                    newer == IF user \in dict_keys(user_latest)
                             THEN ts.t > dict_get(user_latest, user).timestamp.t
                             ELSE TRUE
                    rec == [user |-> user, score |-> r.score, timestamp |-> ts]
                IN latest_per_user(records, i + 1,
                      IF newer THEN dict_set(user_latest, user, rec)
                      ELSE user_latest)

\* list(d.values())
dict_values(d) == [i \in 1..Len(d) |-> d[i].val]

\* The loop over the nodes of the store, building cleaned_nodes.
RECURSIVE clean_nodes(_, _, _)
clean_nodes(nodes, i, cleaned_nodes) ==
    IF i > Len(nodes) THEN [exc |-> "none", val |-> cleaned_nodes]
    ELSE
      LET one == latest_per_user(nodes[i].val, 1, <<>>)
      IN IF one.exc # "none" THEN [exc |-> one.exc, val |-> cleaned_nodes]
         ELSE clean_nodes(nodes, i + 1,
                 dict_set(cleaned_nodes, nodes[i].key, dict_values(one.val)))

dedup(nodes) == clean_nodes(nodes, 1, <<>>)

\* The whole call on store f: [exc, val, file], the exception raised ("none"
\* when the call returns), the mapping returned and the store left behind.
load_ratings_ml(f) ==
    IF f.st = "absent" THEN [exc |-> "none", val |-> <<>>, file |-> f]
    ELSE IF f.st = "corrupt" THEN [exc |-> "JSONDecodeError", val |-> <<>>, file |-> f]
    ELSE
      LET c == dedup(f.nodes)
      IN IF c.exc # "none" THEN [exc |-> c.exc, val |-> <<>>, file |-> f]
         ELSE IF ~Serializable(c.val)
         THEN [exc |-> "TypeError", val |-> <<>>, file |-> Corrupt]
         ELSE [exc |-> "none", val |-> c.val, file |-> Json(c.val)]

(***************************************************************************)
(* ratings_utils.load_ratings: the stored mapping as it is.                *)
(***************************************************************************)
load_ratings_ru(f) ==
    IF f.st = "absent" THEN [exc |-> "none", val |-> <<>>, file |-> f]
    ELSE IF f.st = "corrupt" THEN [exc |-> "JSONDecodeError", val |-> <<>>, file |-> f]
    ELSE [exc |-> "none", val |-> f.nodes, file |-> f]

(***************************************************************************)
(* save_rating (both modules): load, append in memory, write back.         *)
(***************************************************************************)
\* The first half: the store as read, with the new record appended.
save_read(f, node_id, record) ==
    IF f.st = "corrupt" THEN [exc |-> "JSONDecodeError", val |-> <<>>]
    ELSE
      LET nodes == IF f.st = "absent" THEN <<>> ELSE f.nodes
          node_key == str(node_id)
          old == IF node_key \in dict_keys(nodes) THEN dict_get(nodes, node_key) ELSE <<>>
      IN [exc |-> "none", val |-> dict_set(nodes, node_key, Append(old, record))]

\* save_rating returning without having written the file.
save_write_skipped(f, nodes) == f

\* The second half: the whole in-memory mapping replaces the file.
save_write(f, nodes) == Json(nodes)

\* The timestamp argument of ratings_utils.save_rating: None is the current time.
NoTimestamp == [kind |-> "none", t |-> 0]
timestamp_or_now(timestamp, now) ==
    IF timestamp.kind = "none" THEN isoformat(DateTime(now)) ELSE timestamp

NumRecords(f) ==
    LET RECURSIVE count(_)
        count(i) == IF i > Len(f.nodes) THEN 0 ELSE Len(f.nodes[i].val) + count(i + 1)
    IN count(1)

(***************************************************************************)
(* map_loader.apply_ratings: decay-weighted average per node.              *)
(***************************************************************************)
RECURSIVE GCD(_, _)
GCD(a, b) == IF b = 0 THEN a ELSE GCD(b, a % b)
Frac(n, d) == LET g == GCD(n, d) IN [num |-> n \div g, den |-> d \div g]

\* load_city: every node starts at 0.5
DefaultSafety == [num |-> 1, den |-> 2]
GraphNodes == NodeIds

\* (now - ts).days: whole days, rounded towards minus infinity
age_days(now, ts) == (now - ts.t) \div TicksPerDay

\* max(0.0, 1.0 - age_days / decay_days), as a fraction over decay_days
weight(age, decay_days) ==
    [num |-> IF decay_days - age > 0 THEN decay_days - age ELSE 0, den |-> decay_days]

\* The loop over a node's records with a malformed record passed over on its own.
RECURSIVE weigh_skipping(_, _, _, _, _)
weigh_skipping(records, i, now, decay_days, acc) ==
    IF i > Len(records) THEN [exc |-> "none", val |-> acc]
    ELSE
      LET r == records[i]
      IN IF ~has(r, "score") \/ ~has(r, "timestamp")
         THEN weigh_skipping(records, i + 1, now, decay_days, acc)
         ELSE
           LET p == fromisoformat(r.timestamp)
           IN IF p.exc # "none" THEN weigh_skipping(records, i + 1, now, decay_days, acc)
              ELSE weigh_skipping(records, i + 1, now, decay_days,
                     Append(acc, [score |-> r.score,
                                  weight |-> weight(age_days(now, p.val), decay_days)]))

\* The loop over a node's records: the (score, weight) pairs in order, or the
\* exception that ends the loop.
RECURSIVE weigh(_, _, _, _, _)
weigh(records, i, now, decay_days, acc) ==
    IF i > Len(records) THEN [exc |-> "none", val |-> acc]
    ELSE
      LET r == records[i]
      IN IF ~has(r, "score") \/ ~has(r, "timestamp")
         THEN [exc |-> "KeyError", val |-> acc]
         ELSE
           LET p == fromisoformat(r.timestamp)
           IN IF p.exc # "none" THEN [exc |-> p.exc, val |-> acc]
              ELSE weigh(records, i + 1, now, decay_days,
                     Append(acc, [score |-> r.score,
                                  weight |-> weight(age_days(now, p.val), decay_days)]))

RECURSIVE sum_weights(_, _)
sum_weights(pairs, i) ==
    IF i > Len(pairs) THEN 0 ELSE pairs[i].weight.num + sum_weights(pairs, i + 1)

RECURSIVE sum_weighted_scores(_, _)
sum_weighted_scores(pairs, i) ==
    IF i > Len(pairs) THEN 0
    ELSE pairs[i].score * pairs[i].weight.num + sum_weighted_scores(pairs, i + 1)

\* The weighted average of the (score, weight) pairs of a node.
weighted_average(pairs) ==
    Frac(sum_weighted_scores(pairs, 1), 10 * sum_weights(pairs, 1))

\* A node whose weights sum to zero written as score 0.
node_score_zero_when_decayed(node_id, records, now, decay_days) ==
    IF ~IsNumeral(node_id)
    THEN [exc |-> "ValueError", pairs |-> <<>>, wrote |-> FALSE, score |-> DefaultSafety]
    ELSE IF records = <<>>
    THEN [exc |-> "none", pairs |-> <<>>, wrote |-> FALSE, score |-> DefaultSafety]
    ELSE
      LET w == weigh(records, 1, now, decay_days, <<>>)
      IN IF w.exc # "none"
         THEN [exc |-> w.exc, pairs |-> w.val, wrote |-> FALSE, score |-> DefaultSafety]
         ELSE IF sum_weights(w.val, 1) = 0
         THEN [exc |-> "none", pairs |-> w.val, wrote |-> TRUE, score |-> Frac(0, 1)]
         ELSE [exc |-> "none", pairs |-> w.val, wrote |-> TRUE,
               score |-> weighted_average(w.val)]

\* The body of the try block for one node: [exc, pairs, wrote, score].
\* wrote says that update_node_safety was called with score.
node_score(node_id, records, now, decay_days) ==
    IF ~IsNumeral(node_id)
    THEN [exc |-> "ValueError", pairs |-> <<>>, wrote |-> FALSE, score |-> DefaultSafety]
    ELSE IF records = <<>>
    THEN [exc |-> "none", pairs |-> <<>>, wrote |-> FALSE, score |-> DefaultSafety]
    ELSE
      LET w == weigh(records, 1, now, decay_days, <<>>)
      IN IF w.exc # "none"
         THEN [exc |-> w.exc, pairs |-> w.val, wrote |-> FALSE, score |-> DefaultSafety]
         ELSE IF sum_weights(w.val, 1) = 0
         THEN [exc |-> "ZeroDivisionError", pairs |-> w.val, wrote |-> FALSE,
               score |-> DefaultSafety]
         ELSE [exc |-> "none", pairs |-> w.val, wrote |-> TRUE,
               score |-> weighted_average(w.val)]

\* update_node_safety: a node outside the graph is left alone.
update_node_safety(G, node, rating) ==
    IF node \in DOMAIN G THEN [G EXCEPT ![node] = rating] ELSE G

\* The loop over the nodes of the mapping: the annotations after the first i-1
\* entries have been handled.
RECURSIVE annotate(_, _, _, _, _)
annotate(G, rs, i, now, decay_days) ==
    IF i > Len(rs) THEN G
    ELSE
      LET one == node_score(rs[i].key, rs[i].val, now, decay_days)
      IN annotate(IF one.wrote THEN update_node_safety(G, int(rs[i].key), one.score) ELSE G,
                  rs, i + 1, now, decay_days)

\* What the call did node by node (its warnings included), in the mapping's order.
outcomes(rs, now, decay_days) ==
    [i \in 1..Len(rs) |->
        LET one == node_score(rs[i].key, rs[i].val, now, decay_days)
        IN [node_id |-> rs[i].key, records |-> rs[i].val, now |-> now,
            decay_days |-> decay_days, exc |-> one.exc,
            pairs |-> one.pairs, wrote |-> one.wrote]]

(***************************************************************************)
(* The program run in sequence: saves, loads, aggregation, passing time.   *)
(***************************************************************************)
NoCall == [op |-> "none", exc |-> "none", pre |-> Absent]

\* Records a store written by other means may hold.
LegacyRecords ==
    { [user |-> "alice", score |-> 8, timestamp |-> IsoStr(0)],
      [user |-> "alice", score |-> 8],
      [user |-> "alice", timestamp |-> IsoStr(0)],
      [user |-> "alice", score |-> 8, timestamp |-> BadStr] }
InitFiles ==
    {Absent, Json(<<>>)} \cup {Json(<<[key |-> "42", val |-> <<r>>]>>) : r \in LegacyRecords}

Procs == {1, 2}
NotRun == [done |-> FALSE, exc |-> "none", val |-> <<>>]

StoreQuiet ==
    /\ ratings = <<>> /\ last = NoCall /\ calls = <<>>
AggQuiet ==
    /\ safety = [n \in GraphNodes |-> DefaultSafety] /\ report = <<>>
RaceQuiet ==
    /\ pc = [p \in Procs |-> "idle"] /\ data = [p \in Procs |-> <<>>]
    /\ overlap = FALSE /\ base = Absent
DedupQuiet ==
    /\ hist = <<>> /\ pass1 = NotRun /\ pass2 = NotRun

Init ==
    /\ file \in InitFiles
    /\ clock = 0
    /\ StoreQuiet /\ AggQuiet /\ RaceQuiet /\ DedupQuiet

Tick ==
    /\ clock < MaxClock
    /\ clock' = clock + 1
    /\ UNCHANGED <<file, ratings, last, calls, aggVars, raceVars, dedupVars>>

\* save_rating as one call.  timestamp is NoTimestamp for map_loader.save_rating,
\* which has no such argument.
SaveRating(node_id, score, user, timestamp) ==
    LET record == [user |-> user, score |-> score,
                   timestamp |-> timestamp_or_now(timestamp, clock)]
        r == save_read(file, node_id, record)
    IN /\ NumRecords(file) < MaxRecords
       /\ last' = [op |-> "save_rating", exc |-> r.exc, pre |-> file]
       /\ IF r.exc = "none"
          THEN /\ file' = save_write(file, r.val)
               /\ calls' = Append(calls, [node_key |-> str(node_id), user |-> user,
                                          score |-> score,
                                          defaulted |-> timestamp = NoTimestamp])
          ELSE UNCHANGED <<file, calls>>
       /\ UNCHANGED <<clock, ratings, aggVars, raceVars, dedupVars>>

save_rating ==
    \E node_id \in NodeIds, score \in Scores, user \in Users,
       timestamp \in {NoTimestamp, BadStr} :
        SaveRating(node_id, score, user, timestamp)

LoadRatings(op, r) ==
    /\ last' = [op |-> op, exc |-> r.exc, pre |-> file]
    /\ file' = r.file
    /\ ratings' = IF r.exc = "none" THEN r.val ELSE ratings
    /\ UNCHANGED <<clock, calls, aggVars, raceVars, dedupVars>>

map_loader_load_ratings == LoadRatings("map_loader.load_ratings", load_ratings_ml(file))

ratings_utils_load_ratings == LoadRatings("ratings_utils.load_ratings", load_ratings_ru(file))

apply_ratings ==
    /\ safety' = annotate(safety, ratings, 1, clock, DecayDays)
    /\ report' = outcomes(ratings, clock, DecayDays)
    /\ last' = [op |-> "apply_ratings", exc |-> "none", pre |-> file]
    /\ UNCHANGED <<file, clock, ratings, calls, raceVars, dedupVars>>

Next ==
    \/ Tick
    \/ save_rating
    \/ map_loader_load_ratings
    \/ ratings_utils_load_ratings
    \/ apply_ratings

Spec == Init /\ [][Next]_vars

(***************************************************************************)
(* Two processes, each making one save_rating call, step by step.          *)
(***************************************************************************)
RaceInit ==
    /\ file \in InitFiles
    /\ clock = 0
    /\ StoreQuiet /\ AggQuiet /\ DedupQuiet
    /\ pc = [p \in Procs |-> "idle"] /\ data = [p \in Procs |-> <<>>]
    /\ overlap = FALSE /\ base = file

\* Lines 9-24 of ratings_utils.save_rating (165-184 of map_loader.save_rating)
SaveBegin(p, node_id, score, user) ==
    LET record == [user |-> user, score |-> score,
                   timestamp |-> timestamp_or_now(NoTimestamp, clock)]
        r == save_read(file, node_id, record)
    IN /\ pc[p] = "idle"
       /\ IF r.exc = "none"
          THEN /\ pc' = [pc EXCEPT ![p] = "loaded"]
               /\ data' = [data EXCEPT ![p] = r.val]
               /\ overlap' = (overlap \/ \E q \in Procs \ {p} : pc[q] = "loaded")
          ELSE /\ pc' = [pc EXCEPT ![p] = "raised"]
               /\ UNCHANGED <<data, overlap>>
       /\ UNCHANGED <<storeVars, aggVars, dedupVars, base>>

\* Lines 26-29 of ratings_utils.save_rating (187-190 of map_loader.save_rating)
SaveEnd(p) ==
    /\ pc[p] = "loaded"
    /\ file' = save_write(file, data[p])
    /\ pc' = [pc EXCEPT ![p] = "returned"]
    /\ UNCHANGED <<clock, ratings, last, calls, aggVars, dedupVars, data, overlap, base>>

RaceTick ==
    /\ clock < MaxClock
    /\ clock' = clock + 1
    /\ UNCHANGED <<file, ratings, last, calls, aggVars, raceVars, dedupVars>>

RaceNext ==
    \/ RaceTick
    \/ \E p \in Procs, node_id \in NodeIds, score \in Scores, user \in Users :
          SaveBegin(p, node_id, score, user)
    \/ \E p \in Procs : SaveEnd(p)

SpecRace == RaceInit /\ [][RaceNext]_vars

(***************************************************************************)
(* The aggregation over the mappings a load can hand it, as time passes.   *)
(***************************************************************************)
\* The clock runs one day past the point where a record stamped 0 has decayed.
AggHorizon == (DecayDays + 1) * TicksPerDay

AggRecords ==
    { [user |-> "alice", score |-> sc, timestamp |-> IsoStr(t)] :
          sc \in {3, 8}, t \in {0, TicksPerDay, AggHorizon + 1} }
    \cup { [user |-> "alice", timestamp |-> IsoStr(0)],
           [user |-> "alice", score |-> 8],
           [user |-> "alice", score |-> 8, timestamp |-> BadStr] }

RECURSIVE SeqsUpTo(_, _)
SeqsUpTo(S, n) ==
    IF n = 0 THEN {<<>>}
    ELSE LET shorter == SeqsUpTo(S, n - 1)
         IN shorter \cup {Append(q, x) : q \in shorter, x \in S}

\* Node "42" with any records; node "7" absent, or with one record, before or
\* after node "42" in the mapping.
AggInputs ==
    LET other == [key |-> "7",
                  val |-> <<[user |-> "bob", score |-> 3, timestamp |-> IsoStr(AggHorizon)]>>]
    IN UNION { { <<[key |-> "42", val |-> recs]>>,
                 <<[key |-> "42", val |-> recs], other>>,
                 <<other, [key |-> "42", val |-> recs]>> } :
               recs \in SeqsUpTo(AggRecords, MaxAggRecords) }

AggInit ==
    /\ file = Absent
    /\ clock = 0
    /\ ratings \in AggInputs
    /\ last = NoCall /\ calls = <<>>
    /\ AggQuiet /\ RaceQuiet /\ DedupQuiet

AggTick ==
    /\ clock < AggHorizon
    /\ clock' = clock + 1
    /\ UNCHANGED <<file, ratings, last, calls, aggVars, raceVars, dedupVars>>

AggNext == AggTick \/ apply_ratings

SpecAgg == AggInit /\ [][AggNext]_vars

(***************************************************************************)
(* The deduplication of map_loader.load_ratings run on its own output.     *)
(***************************************************************************)
HistRecords ==
    { [user |-> u, score |-> sc, timestamp |-> IsoStr(t)] :
          u \in Users, sc \in {3, 8}, t \in {0, 1} }
    \cup { [user |-> "alice", score |-> 8],
           [user |-> "alice", score |-> 8, timestamp |-> BadStr] }

Histories ==
    UNION { { <<[key |-> "42", val |-> recs]>>,
              <<[key |-> "42", val |-> recs], [key |-> "7", val |-> <<>>]>> } :
            recs \in SeqsUpTo(HistRecords, MaxHist) }

DedupInit ==
    /\ file = Absent
    /\ clock = 0
    /\ StoreQuiet /\ AggQuiet /\ RaceQuiet
    /\ hist \in Histories /\ pass1 = NotRun /\ pass2 = NotRun

DedupOnce ==
    /\ ~pass1.done
    /\ pass1' = [done |-> TRUE] @@ dedup(hist)
    /\ UNCHANGED <<storeVars, aggVars, raceVars, hist, pass2>>

DedupAgain ==
    /\ pass1.done /\ pass1.exc = "none" /\ ~pass2.done
    /\ pass2' = [done |-> TRUE] @@ dedup(pass1.val)
    /\ UNCHANGED <<storeVars, aggVars, raceVars, hist, pass1>>

DedupNext == DedupOnce \/ DedupAgain

SpecDedup == DedupInit /\ [][DedupNext]_vars

(***************************************************************************)
(* Vocabulary of the properties.                                           *)
(***************************************************************************)
LoadOps == {"map_loader.load_ratings", "ratings_utils.load_ratings"}
NodeKeys == {str(n) : n \in NodeIds}
UserOf(r) == IF has(r, "user") THEN r.user ELSE "anonymous"
UsersIn(recs) == {UserOf(recs[i]) : i \in 1..Len(recs)}
By(recs, u) == SelectSeq(recs, LAMBDA r : UserOf(r) = u)
\* A record with a score and a timestamp that denotes an instant.
WellFormed(r) ==
    has(r, "score") /\ has(r, "timestamp") /\ r.timestamp.kind \in {"isostr", "datetime"}
AllWellFormed(recs) == \A j \in 1..Len(recs) : WellFormed(recs[j])
StoreWellFormed(nodes) == \A i \in 1..Len(nodes) : AllWellFormed(nodes[i].val)
LatestT(recs) ==
    CHOOSE t \in {recs[j].timestamp.t : j \in 1..Len(recs)} :
        \A j \in 1..Len(recs) : recs[j].timestamp.t <= t
CallsBy(k, u) == SelectSeq(calls, LAMBDA c : c.node_key = k /\ c.user = u)
Age(r, now) == (now - r.timestamp.t) \div TicksPerDay
AllDecayed(recs, now, decay_days) ==
    recs # <<>> /\ AllWellFormed(recs) /\ \A j \in 1..Len(recs) : Age(recs[j], now) >= decay_days
Live(recs, now, decay_days) ==
    AllWellFormed(recs) /\ \E j \in 1..Len(recs) : Age(recs[j], now) < decay_days

(***************************************************************************)
(* C1.  Whatever the persisted store holds, the mapping load_ratings       *)
(* returns has, for every node and every user of that node, exactly one    *)
(* record, the one with that user's latest timestamp for the node.         *)
(* Stated for stores all of whose records are well formed.                 *)
(***************************************************************************)
LoadKeepsLatestPerUser ==
    (last.op \in LoadOps /\ last.pre.st = "json" /\ StoreWellFormed(last.pre.nodes)) =>
        /\ last.exc = "none"
        /\ \A i \in 1..Len(last.pre.nodes) :
             LET k == last.pre.nodes[i].key
                 recs == last.pre.nodes[i].val
             IN /\ k \in dict_keys(ratings)
                /\ \A u \in UsersIn(recs) :
                     LET mine == By(dict_get(ratings, k), u)
                     IN Len(mine) = 1 /\ mine[1].timestamp.t = LatestT(By(recs, u))

(***************************************************************************)
(* C2.  After save_rating calls by one user on one node, timestamps left   *)
(* to default, a load_ratings call returns exactly one record for that     *)
(* user on that node, with the score of the last call.  Stated for stores  *)
(* that hold nothing but the records of such calls.                        *)
(***************************************************************************)
LoadShowsLastSave ==
    (/\ last.op \in LoadOps
     /\ NumRecords(last.pre) = Len(calls)
     /\ \A i \in 1..Len(calls) : calls[i].defaulted) =>
        \A k \in NodeKeys, u \in Users :
            CallsBy(k, u) # <<>> =>
                /\ last.exc = "none"
                /\ k \in dict_keys(ratings)
                /\ LET mine == By(dict_get(ratings, k), u)
                       cs == CallsBy(k, u)
                   IN Len(mine) = 1 /\ mine[1].score = cs[Len(cs)].score

(***************************************************************************)
(* C3.  After a load_ratings call that found a persisted store, the store  *)
(* is a well-formed document with at most one record per user per node.    *)
(***************************************************************************)
LoadLeavesCompactStore ==
    (last.op \in LoadOps /\ last.pre.st = "json") =>
        /\ file.st = "json"
        /\ \A i \in 1..Len(file.nodes) :
             \A u \in UsersIn(file.nodes[i].val) : Len(By(file.nodes[i].val, u)) <= 1

(***************************************************************************)
(* C4.  Deduplication is idempotent: run on its own output it returns the  *)
(* same mapping, and does not fail.                                        *)
(***************************************************************************)
DedupIdempotent ==
    pass2.done => pass2.exc = "none" /\ pass2.val = pass1.val

(***************************************************************************)
(* C5.  Two save_rating calls in different processes that both load the    *)
(* store before either writes it back leave, once both have returned, a    *)
(* store that is the in-memory copy of one of them: the record the other   *)
(* appended is not in it.                                                  *)
(***************************************************************************)
InterleavedSavesLoseOne ==
    ((\A p \in Procs : pc[p] = "returned") /\ overlap) =>
        /\ \E p \in Procs : file = Json(data[p])
        /\ NumRecords(file) = NumRecords(base) + 1

LostUpdateReached ==
    /\ \A p \in Procs : pc[p] = "returned"
    /\ overlap
    /\ NumRecords(file) < NumRecords(base) + Cardinality(Procs)
    /\ \E p \in Procs : file # Json(data[p])

(***************************************************************************)
(* C6.  load_ratings does not fail on a malformed record: the call         *)
(* returns, no malformed record is in the mapping it returns, and every    *)
(* user with a well-formed record on a node still has a record there.      *)
(***************************************************************************)
LoadDropsMalformed ==
    (/\ last.op \in LoadOps /\ last.pre.st = "json"
     /\ ~StoreWellFormed(last.pre.nodes)) =>
        /\ last.exc = "none"
        /\ \A i \in 1..Len(last.pre.nodes) :
             LET k == last.pre.nodes[i].key
                 recs == last.pre.nodes[i].val
             IN /\ k \in dict_keys(ratings)
                /\ AllWellFormed(dict_get(ratings, k))
                /\ \A u \in UsersIn(SelectSeq(recs, WellFormed)) :
                     By(dict_get(ratings, k), u) # <<>>

(***************************************************************************)
(* C7 as claimed.  A node whose records have all decayed, or whose record  *)
(* list is empty, stays at the default 0.5 and no division by zero is      *)
(* performed for it.                                                       *)
(***************************************************************************)
DecayedNodeStaysDefaultWithoutDivision ==
    \A i \in 1..Len(report) :
        LET e == report[i]
        IN (e.records = <<>> \/ AllDecayed(e.records, e.now, e.decay_days)) =>
              /\ safety[int(e.node_id)] = DefaultSafety
              /\ e.exc # "ZeroDivisionError"

(***************************************************************************)
(* C7 as amended.  apply_ratings leaves the annotation of a node with an   *)
(* empty record list, or with records that have all decayed, as it was     *)
(* (0.5 if nothing was written to it before): nothing is written.  For the *)
(* decayed node the division by the zero weight sum is attempted and its   *)
(* ZeroDivisionError is caught for that node; the batch goes on, and a     *)
(* node with well-formed records of positive weight is written.            *)
(***************************************************************************)
DecayedNodeLeftAsItWas ==
    [][apply_ratings =>
        \A i \in 1..Len(ratings) :
            LET n == int(ratings[i].key)
                recs == ratings[i].val
            IN /\ recs = <<>> =>
                    /\ safety'[n] = safety[n]
                    /\ ~report'[i].wrote /\ report'[i].exc = "none"
               /\ AllDecayed(recs, clock, DecayDays) =>
                    /\ safety'[n] = safety[n]
                    /\ ~report'[i].wrote /\ report'[i].exc = "ZeroDivisionError"
               /\ Live(recs, clock, DecayDays) =>
                    /\ report'[i].wrote /\ report'[i].exc = "none"
                    /\ \E lo, hi \in {recs[j].score : j \in 1..Len(recs)} :
                          /\ lo * safety'[n].den <= 10 * safety'[n].num
                          /\ 10 * safety'[n].num <= hi * safety'[n].den]_vars

DecayedNodeSkippedInBatch ==
    \E i \in 1..Len(report) :
        /\ AllDecayed(report[i].records, report[i].now, report[i].decay_days)
        /\ report[i].exc = "ZeroDivisionError"
        /\ safety[int(report[i].node_id)] = DefaultSafety
        /\ \E j \in (i + 1)..Len(report) : report[j].wrote

(***************************************************************************)
(* C8 as claimed.  A malformed record is skipped on its own: the node's    *)
(* annotation becomes the weighted average of its well-formed records, as  *)
(* if the malformed record were absent.                                    *)
(***************************************************************************)
MalformedRecordSkippedAlone ==
    \A i \in 1..Len(report) :
        LET e == report[i]
            good == SelectSeq(e.records, WellFormed)
        IN (good # e.records /\ Live(good, e.now, e.decay_days)) =>
              safety[int(e.node_id)] =
                  node_score(e.node_id, good, e.now, e.decay_days).score

(***************************************************************************)
(* C8 as amended.  A malformed record (no score, no timestamp, a timestamp *)
(* that does not parse) makes apply_ratings skip its whole node: the       *)
(* node's annotation stays as it was, whatever well-formed records the     *)
(* node has, and the batch goes on with the remaining nodes, which are     *)
(* written when their records are well formed and of positive weight.      *)
(***************************************************************************)
MalformedRecordSkipsNode ==
    [][apply_ratings =>
        \A i \in 1..Len(ratings) :
            LET n == int(ratings[i].key)
                recs == ratings[i].val
            IN /\ ~AllWellFormed(recs) =>
                    /\ safety'[n] = safety[n]
                    /\ ~report'[i].wrote
                    /\ report'[i].exc \in {"KeyError", "ValueError"}
               /\ Live(recs, clock, DecayDays) => report'[i].wrote]_vars

MalformedNodeSkippedInBatch ==
    \E i \in 1..Len(report) :
        LET e == report[i]
            good == SelectSeq(e.records, WellFormed)
        IN /\ good # e.records /\ Live(good, e.now, e.decay_days)
           /\ ~e.wrote /\ e.exc \in {"KeyError", "ValueError"}
           /\ safety[int(e.node_id)] = DefaultSafety
           /\ \E j \in (i + 1)..Len(report) : report[j].wrote

(***************************************************************************)
(* C9.  Every node's safety annotation is in [0,1], and no record with a   *)
(* score outside [0,1] is aggregated into an annotation.                   *)
(***************************************************************************)
SafetyInUnitInterval ==
    /\ \A n \in GraphNodes : 0 <= safety[n].num /\ safety[n].num <= safety[n].den
    /\ \A i \in 1..Len(report) :
         report[i].wrote =>
            \A j \in 1..Len(report[i].pairs) : report[i].pairs[j].score \in 0..10

(***************************************************************************)
(* C10.  The weight of a record is in [0,1]: max(0, 1 - age/decay) for a   *)
(* record that is not in the future, and 1 for a record in the future.     *)
(***************************************************************************)
WeightInUnitInterval ==
    \A i \in 1..Len(report) :
        \A j \in 1..Len(report[i].pairs) :
            LET e == report[i]
                w == e.pairs[j].weight
                age == Age(e.records[j], e.now)
            IN /\ 0 <= w.num /\ w.num <= w.den
               /\ age < 0 => w.num = w.den
               /\ age >= 0 =>
                    w.num * e.decay_days =
                        w.den * (IF e.decay_days - age > 0 THEN e.decay_days - age ELSE 0)

====
